---- MODULE Spec2Model ----
(***************************************************************************)
(* A model of the CHIP-8 interpreter of adrichey/go-chip8                   *)
(* (src/emulator/screen.go, the chip8 type): the machine state, boot, ROM   *)
(* load, the fetch-decode-execute cycle with every instruction handler,     *)
(* and the Run loop that polls the host input and dispatches cycles.        *)
(*                                                                         *)
(* Go's run-time behaviour is kept: bytes wrap modulo 256, uint16 values    *)
(* modulo 65536, and an array index out of range is a run-time panic that   *)
(* stops the process with whatever was assigned before it.                  *)
(***************************************************************************)
EXTENDS Integers, Sequences, FiniteSets, TLC

\* c8       the chip8 value: registers, memory, indexRegister, programCounter,
\*          stack, stackPointer, the timers, opcode, keypad, pixels; its field
\*          trap tells whether the process has stopped on a run-time panic
\* quit     Run's local flag, the result of the last processInput
\* pending  the host events not yet polled, in arrival order
\* cycles   the number of cycle() calls made so far
\* hist     history: the opcode run by the last cycle and the registers,
\*          pixels and delay timer it started from
\* callLog  history: for every CALL not yet returned from, the address it was
\*          fetched at and the stack pointer it found
\* lastCycleTime  Run's local: when the last cycle was dispatched, in
\*          milliseconds since Run began
\* passMs   the host's speed: the milliseconds that Run measures since the last
\*          cycle in a pass that finds the next cycle due
\* romFile  the bytes of the ROM file that was loaded
VARIABLES c8, quit, pending, cycles, hist, callLog, lastCycleTime, passMs, romFile

vars == << c8, quit, pending, cycles, hist, callLog, lastCycleTime, passMs, romFile >>

\* ------------------------------------------------------------------------
\* Program constants
\* ------------------------------------------------------------------------
MEMORY_SIZE == 4096
START_ADDRESS == 512
FONTSET_START_ADDRESS == 80
VIDEO_HEIGHT == 32
VIDEO_WIDTH == 64
NUM_REGISTERS == 16
STACK_SIZE == 16
NUM_KEYS == 16
ByteMod == 256
WordMod == 65536
VF == 15
\* Run dispatches a cycle when more than this many milliseconds have passed.
cycleDelay == 1

\* ------------------------------------------------------------------------
\* Bounds of the model
\* ------------------------------------------------------------------------
\* The Run loop dispatches at most this many cycles in one behaviour.
MaxCycles == 18

\* A run that is inside a subroutine after MaxCycles cycles is followed until
\* it has returned, for this many cycles at most.
MaxNestedCycles == 32

\* ------------------------------------------------------------------------
\* Fixed-width arithmetic and bit operations (Go byte / uint16)
\* ------------------------------------------------------------------------
Byte(v) == v % ByteMod
Word(v) == v % WordMod

Pow2(i) == 2 ^ i
Bit(v, i) == (v \div Pow2(i)) % 2

\* A byte assembled from its eight bits, bit i given by f[i].
ByteOfBits(f) ==
    f[0] + 2 * f[1] + 4 * f[2] + 8 * f[3] + 16 * f[4] + 32 * f[5] + 64 * f[6] + 128 * f[7]

BitAnd(a, b) == ByteOfBits([i \in 0 .. 7 |-> Bit(a, i) * Bit(b, i)])
BitOr(a, b) == ByteOfBits([i \in 0 .. 7 |-> IF Bit(a, i) + Bit(b, i) > 0 THEN 1 ELSE 0])
BitXor(a, b) == ByteOfBits([i \in 0 .. 7 |-> (Bit(a, i) + Bit(b, i)) % 2])

\* Operand fields of the fetched word.
OpFamily(op) == op \div 4096
OpX(op) == (op \div 256) % 16
OpY(op) == (op \div 16) % 16
OpN(op) == op % 16
OpKK(op) == op % 256
OpNNN(op) == op % 4096

\* ------------------------------------------------------------------------
\* Boot
\* ------------------------------------------------------------------------
fontset ==
    << 240, 144, 144, 144, 240,
       32, 96, 32, 32, 112,
       240, 16, 240, 128, 240,
       240, 16, 240, 16, 240,
       144, 144, 240, 16, 16,
       240, 128, 240, 16, 240,
       240, 128, 240, 144, 240,
       240, 16, 32, 64, 64,
       240, 144, 240, 144, 240,
       240, 144, 240, 16, 240,
       240, 144, 240, 144, 144,
       224, 144, 224, 144, 224,
       240, 128, 128, 128, 240,
       224, 144, 144, 144, 224,
       240, 128, 240, 128, 240,
       240, 128, 240, 128, 128 >>

\* A run-time panic: the process stops with the state as assigned so far.
Panic(s) == [s EXCEPT !.trap = "panic"]

\* 00E0 CLS: every pixel off.
op00E0FromRowOne(s) ==
    [s EXCEPT !.pixels = [k \in 0 .. VIDEO_HEIGHT - 1 |->
                            IF k = 0 THEN @[k] ELSE [i \in 0 .. VIDEO_WIDTH - 1 |-> 0]]]

op00E0(s) ==
    [s EXCEPT !.pixels = [k \in 0 .. VIDEO_HEIGHT - 1 |-> [i \in 0 .. VIDEO_WIDTH - 1 |-> 0]]]

newChip8 ==
    op00E0(
      [ registers |-> [k \in 0 .. NUM_REGISTERS - 1 |-> 0],
        memory |-> [k \in 0 .. MEMORY_SIZE - 1 |->
                      IF k >= FONTSET_START_ADDRESS /\ k < FONTSET_START_ADDRESS + Len(fontset)
                      THEN fontset[k - FONTSET_START_ADDRESS + 1]
                      ELSE 0],
        indexRegister |-> 0,
        programCounter |-> START_ADDRESS,
        stack |-> [k \in 0 .. STACK_SIZE - 1 |-> 0],
        stackPointer |-> 0,
        delayTimer |-> 0,
        soundTimer |-> 0,
        opcode |-> 0,
        keypad |-> [k \in 0 .. NUM_KEYS - 1 |-> 0],
        pixels |-> [k \in 0 .. VIDEO_HEIGHT - 1 |-> [i \in 0 .. VIDEO_WIDTH - 1 |-> 0]],
        trap |-> "none" ])

\* The ROM bytes are copied to START_ADDRESS + i in order, with no check of the
\* length: a byte that would land at or above MEMORY_SIZE panics after the
\* bytes before it were written.
LoadChip8ROM(data) ==
    LET room == MEMORY_SIZE - START_ADDRESS
        written == IF Len(data) > room THEN room ELSE Len(data)
        loaded == [newChip8 EXCEPT !.memory =
                     [a \in 0 .. MEMORY_SIZE - 1 |->
                        IF a >= START_ADDRESS /\ a - START_ADDRESS < written
                        THEN data[a - START_ADDRESS + 1]
                        ELSE @[a]]]
    IN  IF Len(data) > room THEN Panic(loaded) ELSE loaded

\* ------------------------------------------------------------------------
\* Instruction handlers.  Each takes the machine after the fetch (opcode set,
\* programCounter already advanced by 2) and yields the machine after it.
\* ------------------------------------------------------------------------

\* 00EE RET
op00EEFoldsStack(s) ==
    LET sp == Byte(s.stackPointer - 1)
        s1 == [s EXCEPT !.stackPointer = sp]
    IN  IF sp >= STACK_SIZE THEN Panic(s1)
        ELSE [s1 EXCEPT !.programCounter = s.stack[sp % 8]]

op00EE(s) ==
    LET sp == Byte(s.stackPointer - 1)
        s1 == [s EXCEPT !.stackPointer = sp]
    IN  IF sp >= STACK_SIZE THEN Panic(s1)
        ELSE [s1 EXCEPT !.programCounter = s.stack[sp]]

\* 1nnn JP addr
op1nnn(s) == [s EXCEPT !.programCounter = OpNNN(s.opcode)]

\* 2nnn CALL addr
op2nnnPushesCallAddress(s) ==
    IF s.stackPointer >= STACK_SIZE THEN Panic(s)
    ELSE [s EXCEPT !.stack[s.stackPointer] = Word(s.programCounter - 2),
                   !.stackPointer = Byte(s.stackPointer + 1),
                   !.programCounter = OpNNN(s.opcode)]

op2nnnWrapsStack(s) ==
    [s EXCEPT !.stack[s.stackPointer % STACK_SIZE] = s.programCounter,
              !.stackPointer = Byte(s.stackPointer + 1),
              !.programCounter = OpNNN(s.opcode)]

op2nnn(s) ==
    IF s.stackPointer >= STACK_SIZE THEN Panic(s)
    ELSE [s EXCEPT !.stack[s.stackPointer] = s.programCounter,
                   !.stackPointer = Byte(s.stackPointer + 1),
                   !.programCounter = OpNNN(s.opcode)]

SkipOneByte(s) == [s EXCEPT !.programCounter = Word(@ + 1)]

Skip(s) == [s EXCEPT !.programCounter = Word(@ + 2)]

\* 3xkk SE Vx, byte
op3xkk(s) == IF s.registers[OpX(s.opcode)] = OpKK(s.opcode) THEN Skip(s) ELSE s

\* 4xkk SNE Vx, byte
op4xkk(s) == IF s.registers[OpX(s.opcode)] # OpKK(s.opcode) THEN Skip(s) ELSE s

\* 5xy0 SE Vx, Vy
op5xy0(s) ==
    IF s.registers[OpX(s.opcode)] = s.registers[OpY(s.opcode)] THEN Skip(s) ELSE s

\* 6xkk LD Vx, byte
op6xkk(s) == [s EXCEPT !.registers[OpX(s.opcode)] = OpKK(s.opcode)]

\* 7xkk ADD Vx, byte
op7xkkSetsCarry(s) ==
    LET vx == OpX(s.opcode)
        sum == s.registers[vx] + OpKK(s.opcode)
    IN  [[s EXCEPT !.registers[VF] = IF sum > 255 THEN 1 ELSE 0]
            EXCEPT !.registers[vx] = sum % ByteMod]

op7xkk(s) == [s EXCEPT !.registers[OpX(s.opcode)] = Byte(@ + OpKK(s.opcode))]

\* 8xy0 LD Vx, Vy
op8xy0(s) == [s EXCEPT !.registers[OpX(s.opcode)] = s.registers[OpY(s.opcode)]]

\* 8xy1 OR Vx, Vy
op8xy1(s) ==
    [s EXCEPT !.registers[OpX(s.opcode)] = BitOr(@, s.registers[OpY(s.opcode)])]

\* 8xy2 AND Vx, Vy
op8xy2(s) ==
    [s EXCEPT !.registers[OpX(s.opcode)] = BitAnd(@, s.registers[OpY(s.opcode)])]

\* 8xy3 XOR Vx, Vy
op8xy3(s) ==
    [s EXCEPT !.registers[OpX(s.opcode)] = BitXor(@, s.registers[OpY(s.opcode)])]

\* The flag is written first and the result second, as two assignments.
SetFlagThen(s, flag, vx, result) ==
    LET s1 == [s EXCEPT !.registers[VF] = flag]
    IN  [s1 EXCEPT !.registers[vx] = result]

\* 8xy4 ADD Vx, Vy
AddCarryFrom255(sum) == IF sum >= 255 THEN 1 ELSE 0

AddCarry(sum) == IF sum > 255 THEN 1 ELSE 0

op8xy4(s) ==
    LET vx == OpX(s.opcode)
        vy == OpY(s.opcode)
        sum == s.registers[vx] + s.registers[vy]
    IN  SetFlagThen(s, AddCarry(sum), vx, sum % ByteMod)

\* 8xy5 SUB Vx, Vy
SubFlag(a, b) == IF a > b THEN 1 ELSE 0

op8xy5(s) ==
    LET vx == OpX(s.opcode)
        vy == OpY(s.opcode)
        s1 == [s EXCEPT !.registers[VF] = SubFlag(s.registers[vx], s.registers[vy])]
    IN  [s1 EXCEPT !.registers[vx] = Byte(s1.registers[vx] - s1.registers[vy])]

\* 8xy6 SHR Vx
ShrFlagAfterShift(v) == BitAnd(v \div 2, 1)

ShrFlag(v) == BitAnd(v, 1)

op8xy6(s) ==
    LET vx == OpX(s.opcode)
        s1 == [s EXCEPT !.registers[VF] = ShrFlag(s.registers[vx])]
    IN  [s1 EXCEPT !.registers[vx] = s1.registers[vx] \div 2]

\* 8xy7 SUBN Vx, Vy
op8xy7(s) ==
    LET vx == OpX(s.opcode)
        vy == OpY(s.opcode)
        s1 == [s EXCEPT !.registers[VF] = SubFlag(s.registers[vy], s.registers[vx])]
    IN  [s1 EXCEPT !.registers[vx] = Byte(s1.registers[vy] - s1.registers[vx])]

\* 8xyE SHL Vx
ShlFlag(v) == BitAnd(v, 128) \div 128

op8xyE(s) ==
    LET vx == OpX(s.opcode)
        s1 == [s EXCEPT !.registers[VF] = ShlFlag(s.registers[vx])]
    IN  [s1 EXCEPT !.registers[vx] = Byte(s1.registers[vx] * 2)]

\* 9xy0 SNE Vx, Vy
op9xy0(s) ==
    IF s.registers[OpX(s.opcode)] # s.registers[OpY(s.opcode)] THEN Skip(s) ELSE s

\* Annn LD I, addr
opAnnnLowByte(s) == [s EXCEPT !.indexRegister = OpKK(s.opcode)]

opAnnn(s) == [s EXCEPT !.indexRegister = OpNNN(s.opcode)]

\* Bnnn JP V0, addr
opBnnn(s) == [s EXCEPT !.programCounter = Word(s.registers[0] + OpNNN(s.opcode))]

\* rand.IntN(255): a value in 0..254.
RandomBytes == 0 .. 254

\* Cxkk RND Vx, byte (the masked random byte is added to Vx)
opCxkk(s, r) ==
    [s EXCEPT !.registers[OpX(s.opcode)] = Byte(@ + BitAnd(r, OpKK(s.opcode)))]

\* Dxyn DRW Vx, Vy, nibble
OrPixel(v) == IF v % 2 = 0 THEN v + 1 ELSE v

XorPixel(v) == IF v % 2 = 0 THEN v + 1 ELSE v - 1

DrawTarget(s) == << OpY(s.opcode), OpX(s.opcode) >>

RECURSIVE DrawCols(_, _, _, _)
DrawCols(s, at, pixel, col) ==
    IF col >= 8 THEN s
    ELSE IF Bit(pixel, 7 - col) # 0
         THEN LET s1 == IF s.pixels[at[1]][at[2]] = 1
                        THEN [s EXCEPT !.registers[VF] = 1]
                        ELSE s
              IN  DrawCols([s1 EXCEPT !.pixels[at[1]][at[2]] = XorPixel(@)],
                           at, pixel, col + 1)
         ELSE DrawCols(s, at, pixel, col + 1)

RECURSIVE DrawRows(_, _, _, _)
DrawRows(s, at, height, row) ==
    IF row >= height THEN s
    ELSE LET addr == Word(s.indexRegister + row)
         IN  IF addr >= MEMORY_SIZE THEN Panic(s)
             ELSE DrawRows(DrawCols(s, at, s.memory[addr], 0), at, height, row + 1)

opDxyn(s) ==
    DrawRows([s EXCEPT !.registers[VF] = 0], DrawTarget(s), OpN(s.opcode), 0)

\* Ex9E SKP Vx
opEx9E(s) ==
    LET key == s.registers[OpX(s.opcode)]
    IN  IF key >= NUM_KEYS THEN Panic(s)
        ELSE IF s.keypad[key] # 0 THEN Skip(s) ELSE s

\* ExA1 SKNP Vx
opExA1(s) ==
    LET key == s.registers[OpX(s.opcode)]
    IN  IF key >= NUM_KEYS THEN Panic(s)
        ELSE IF s.keypad[key] = 0 THEN Skip(s) ELSE s

\* Fx07 LD Vx, DT
opFx07(s) == [s EXCEPT !.registers[OpX(s.opcode)] = s.delayTimer]

\* Fx0A LD Vx, K: the lowest pressed key, or the programCounter is put back.
opFx0AGoesOn(s) ==
    LET pressed == {k \in 0 .. NUM_KEYS - 1 : s.keypad[k] # 0}
    IN  IF pressed # {}
        THEN [s EXCEPT !.registers[OpX(s.opcode)] =
                          CHOOSE k \in pressed : \A j \in pressed : k <= j]
        ELSE s

opFx0AAlwaysRewinds(s) ==
    LET pressed == {k \in 0 .. NUM_KEYS - 1 : s.keypad[k] # 0}
        s1 == [s EXCEPT !.programCounter = Word(@ - 2)]
    IN  IF pressed # {}
        THEN [s1 EXCEPT !.registers[OpX(s.opcode)] =
                           CHOOSE k \in pressed : \A j \in pressed : k <= j]
        ELSE s1

opFx0A(s) ==
    LET pressed == {k \in 0 .. NUM_KEYS - 1 : s.keypad[k] # 0}
    IN  IF pressed # {}
        THEN [s EXCEPT !.registers[OpX(s.opcode)] =
                          CHOOSE k \in pressed : \A j \in pressed : k <= j]
        ELSE [s EXCEPT !.programCounter = Word(@ - 2)]

\* Fx15 LD DT, Vx
opFx15(s) == [s EXCEPT !.delayTimer = s.registers[OpX(s.opcode)]]

\* Fx18 LD ST, Vx
opFx18(s) == [s EXCEPT !.soundTimer = s.registers[OpX(s.opcode)]]

\* Fx1E ADD I, Vx
opFx1E(s) == [s EXCEPT !.indexRegister = Word(@ + s.registers[OpX(s.opcode)])]

\* Fx29 LD F, Vx
opFx29(s) ==
    [s EXCEPT !.indexRegister = Word(FONTSET_START_ADDRESS + 5 * s.registers[OpX(s.opcode)])]

\* One store to memory[addr] with Go's bounds check.
StoreByte(s, addr, v) ==
    IF s.trap # "none" THEN s
    ELSE IF addr >= MEMORY_SIZE THEN Panic(s)
    ELSE [s EXCEPT !.memory[addr] = v]

\* Fx33 LD B, Vx: ones at I+2, then tens at I+1, then hundreds at I.
opFx33OnesAtIndex(s) ==
    LET value == s.registers[OpX(s.opcode)]
        s1 == StoreByte(s, Word(s.indexRegister + 2), ((value \div 10) \div 10) % 10)
        s2 == StoreByte(s1, Word(s.indexRegister + 1), (value \div 10) % 10)
    IN  StoreByte(s2, s.indexRegister, value % 10)

opFx33(s) ==
    LET value == s.registers[OpX(s.opcode)]
        s1 == StoreByte(s, Word(s.indexRegister + 2), value % 10)
        s2 == StoreByte(s1, Word(s.indexRegister + 1), (value \div 10) % 10)
    IN  StoreByte(s2, s.indexRegister, ((value \div 10) \div 10) % 10)

\* Fx55 LD [I], Vx: the address is byte(I) + i in byte arithmetic.
RECURSIVE StoreRegs(_, _, _)
StoreRegs(s, vx, i) ==
    IF i > vx THEN s
    ELSE StoreRegs([s EXCEPT !.memory[Byte(Byte(s.indexRegister) + i)] = s.registers[i]],
                   vx, i + 1)

opFx55(s) == StoreRegs(s, OpX(s.opcode), 0)

\* Fx65 LD Vx, [I]
RECURSIVE LoadRegs(_, _, _)
LoadRegs(s, vx, i) ==
    IF i > vx THEN s
    ELSE LoadRegs([s EXCEPT !.registers[i] = s.memory[Byte(Byte(s.indexRegister) + i)]],
                  vx, i + 1)

opFx65(s) == LoadRegs(s, OpX(s.opcode), 0)

\* ------------------------------------------------------------------------
\* cycle(): fetch, decode and execute, then the timers
\* ------------------------------------------------------------------------
CanFetch(s) ==
    s.programCounter < MEMORY_SIZE /\ Word(s.programCounter + 1) < MEMORY_SIZE

FetchLowByteFirst(s) ==
    [s EXCEPT !.opcode = s.memory[Word(s.programCounter + 1)] * 256
                           + s.memory[s.programCounter],
              !.programCounter = Word(@ + 2)]

Fetch(s) ==
    [s EXCEPT !.opcode = s.memory[s.programCounter] * 256
                           + s.memory[Word(s.programCounter + 1)],
              !.programCounter = Word(@ + 2)]

Dispatch(s, r) ==
    LET op == s.opcode
        fam == OpFamily(op)
        low == OpN(op)
        kk == OpKK(op)
    IN  CASE fam = 0 ->
               (CASE low = 0 -> op00E0(s)
                  [] low = 14 -> op00EE(s)
                  [] OTHER -> s)
          [] fam = 1 -> op1nnn(s)
          [] fam = 2 -> op2nnn(s)
          [] fam = 3 -> op3xkk(s)
          [] fam = 4 -> op4xkk(s)
          [] fam = 5 -> op5xy0(s)
          [] fam = 6 -> op6xkk(s)
          [] fam = 7 -> op7xkk(s)
          [] fam = 8 ->
               (CASE low = 0 -> op8xy0(s)
                  [] low = 1 -> op8xy1(s)
                  [] low = 2 -> op8xy2(s)
                  [] low = 3 -> op8xy3(s)
                  [] low = 4 -> op8xy4(s)
                  [] low = 5 -> op8xy5(s)
                  [] low = 6 -> op8xy6(s)
                  [] low = 7 -> op8xy7(s)
                  [] low = 14 -> op8xyE(s)
                  [] OTHER -> s)
          [] fam = 9 -> op9xy0(s)
          [] fam = 10 -> opAnnn(s)
          [] fam = 11 -> opBnnn(s)
          [] fam = 12 -> opCxkk(s, r)
          [] fam = 13 -> opDxyn(s)
          [] fam = 14 ->
               (CASE low = 1 -> opExA1(s)
                  [] low = 14 -> opEx9E(s)
                  [] OTHER -> s)
          [] fam = 15 ->
               (CASE kk = 7 -> opFx07(s)
                  [] kk = 10 -> opFx0A(s)
                  [] kk = 21 -> opFx15(s)
                  [] kk = 24 -> opFx18(s)
                  [] kk = 30 -> opFx1E(s)
                  [] kk = 41 -> opFx29(s)
                  [] kk = 51 -> opFx33(s)
                  [] kk = 85 -> opFx55(s)
                  [] kk = 101 -> opFx65(s)
                  [] OTHER -> s)
          [] OTHER -> [s EXCEPT !.trap = "fatal"]

TimerDecayWraps(t) == Byte(t - 1)

TimerDecay(t) == IF t > 0 THEN t - 1 ELSE t

DecayTimersAndBlink(s) ==
    [s EXCEPT !.delayTimer = TimerDecay(@), !.soundTimer = TimerDecay(@),
              !.pixels[0][0] = 1 - @]

DecayTimers(s) ==
    [s EXCEPT !.delayTimer = TimerDecay(@), !.soundTimer = TimerDecay(@)]

cycleDecaysFirst(s, r) ==
    IF ~CanFetch(s) THEN Panic(s)
    ELSE Dispatch(DecayTimers(Fetch(s)), r)

cycle(s, r) ==
    IF ~CanFetch(s) THEN Panic(s)
    ELSE LET done == Dispatch(Fetch(s), r)
         IN  IF done.trap # "none" THEN done ELSE DecayTimers(done)

\* ------------------------------------------------------------------------
\* processInput(): the polled events update the keypad latch; a quit event or
\* a press of Escape makes it return true
\* ------------------------------------------------------------------------
KeyEvent(k, down) == [kind |-> "key", key |-> k, s |-> down]
EscapeEvent(down) == [kind |-> "escape", key |-> 0, s |-> down]
QuitEvent == [kind |-> "quit", key |-> 0, s |-> 0]

ApplyEvent(keypad, ev) ==
    IF ev.kind = "key" THEN [keypad EXCEPT ![ev.key] = ev.s] ELSE keypad

RECURSIVE PollEvents(_, _)
PollEvents(keypad, evs) ==
    IF evs = << >> THEN keypad
    ELSE PollEvents(ApplyEvent(keypad, Head(evs)), Tail(evs))

QuitSeen(evs) ==
    \E i \in 1 .. Len(evs) :
        evs[i].kind = "quit" \/ (evs[i].kind = "escape" /\ evs[i].s = 1)

processInput(s, evs) == [s EXCEPT !.keypad = PollEvents(@, evs)]

\* ------------------------------------------------------------------------
\* History kept for the call/return and draw/erase properties
\* ------------------------------------------------------------------------
IsCall(op) == OpFamily(op) = 2
IsRet(op) == OpFamily(op) = 0 /\ OpN(op) = 14
IsCls(op) == OpFamily(op) = 0 /\ OpN(op) = 0
IsDraw(op) == OpFamily(op) = 13

NextCallLog(log, before, after) ==
    IF ~CanFetch(before) \/ after.trap # "none" THEN log
    ELSE IF IsCall(after.opcode)
         THEN Append(log, [at |-> before.programCounter, sp |-> before.stackPointer])
    ELSE IF IsRet(after.opcode) /\ log # << >>
         THEN SubSeq(log, 1, Len(log) - 1)
    ELSE log

NextHist(h, before, after) ==
    IF ~CanFetch(before) THEN h
    ELSE [opcode |-> after.opcode, registers |-> before.registers,
          indexRegister |-> before.indexRegister, pixels |-> before.pixels,
          delayTimer |-> before.delayTimer, trap |-> after.trap]

\* ------------------------------------------------------------------------
\* Run(): each pass polls the input, then runs one cycle if more than the
\* cycle delay has elapsed since the last one, which is then stamped with the
\* time of the pass.  A pass that polls nothing and dispatches nothing changes
\* nothing.
\* ------------------------------------------------------------------------
RandomChoices(s) ==
    IF CanFetch(s) /\ OpFamily(Fetch(s).opcode) = 12 THEN RandomBytes ELSE {0}

RunIdle ==
    /\ ~quit
    /\ c8.trap = "none"
    /\ \E k \in 1 .. Len(pending) :
          /\ c8' = processInput(c8, SubSeq(pending, 1, k))
          /\ quit' = QuitSeen(SubSeq(pending, 1, k))
          /\ pending' = SubSeq(pending, k + 1, Len(pending))
    /\ UNCHANGED << cycles, hist, callLog, lastCycleTime, passMs, romFile >>

RunCycle ==
    /\ ~quit
    /\ c8.trap = "none"
    /\ \/ cycles < MaxCycles
       \/ c8.stackPointer > 0 /\ cycles < MaxNestedCycles
    /\ passMs > cycleDelay
    /\ lastCycleTime' = lastCycleTime + passMs
    /\ UNCHANGED << passMs, romFile >>
    /\ \E k \in 0 .. Len(pending) :
          LET polled == processInput(c8, SubSeq(pending, 1, k))
          IN  \E r \in RandomChoices(polled) :
                 /\ c8' = cycle(polled, r)
                 /\ quit' = QuitSeen(SubSeq(pending, 1, k))
                 /\ pending' = SubSeq(pending, k + 1, Len(pending))
                 /\ hist' = NextHist(hist, polled, c8')
                 /\ callLog' = NextCallLog(callLog, polled, c8')
    /\ cycles' = cycles + 1

Next == RunIdle \/ RunCycle

\* ------------------------------------------------------------------------
\* Programs.  A ROM is the byte sequence of its instruction words.
\* ------------------------------------------------------------------------
Op(a, b, c, d) == a * 4096 + b * 256 + c * 16 + d

\* Each word gives its high byte and then its low byte.
RomBytes(words) ==
    [i \in 1 .. 2 * Len(words) |->
        IF i % 2 = 1 THEN words[(i + 1) \div 2] \div 256 ELSE words[i \div 2] % 256]

\* Run starts on a machine loaded with one of the ROM files, with one of the
\* event scripts to come, on a host of one of the speeds.
InitFiles(files, scripts, speeds) ==
    /\ romFile \in files
    /\ c8 = LoadChip8ROM(romFile)
    /\ pending \in scripts
    /\ quit = FALSE
    /\ cycles = 0
    /\ hist = [opcode |-> 0, registers |-> c8.registers,
               indexRegister |-> c8.indexRegister, pixels |-> c8.pixels,
               delayTimer |-> c8.delayTimer, trap |-> "none"]
    /\ callLog = << >>
    /\ lastCycleTime = 0
    /\ passMs \in speeds

\* The same, the ROM files given as sequences of instruction words.
InitHost(roms, scripts, speeds) ==
    InitFiles({ RomBytes(rom) : rom \in roms }, scripts, speeds)

\* The fastest host: every cycle is dispatched as soon as it is due.
FastestHost == { cycleDelay + 1 }

InitWith(roms, scripts) == InitHost(roms, scripts, FastestHost)

OneKeyScripts == { << KeyEvent(5, 1) >> }

\* Arithmetic programs: two register loads, then one 8xy_ instruction.
ByteSamples == {0, 1, 5, 10, 129, 255}
RegPairs == { <<0, 1>>, <<2, 2>>, <<3, 15>>, <<15, 3>> }
AluSelectors == {4, 5, 6, 7, 14}

AluRoms ==
    { << Op(6, p[1], a \div 16, a % 16), Op(6, p[2], b \div 16, b % 16),
         Op(8, p[1], p[2], f) >> :
        p \in RegPairs, a \in ByteSamples, b \in ByteSamples, f \in AluSelectors }

InitAlu == InitWith(AluRoms, OneKeyScripts)
SpecAlu == InitAlu /\ [][Next]_vars

\* Call programs: three words of calls into the program, returns, a jump and a
\* register load; and one with CALL 0x300 at 0x204 and RET at 0x300.
CallWords ==
    { Op(2, 2, 0, 0), Op(2, 2, 0, 2), Op(2, 2, 0, 4), Op(0, 0, 14, 14),
      Op(1, 2, 0, 2), Op(6, 0, 0, 1) }

FarCallRom ==
    [i \in 1 .. 129 |->
        CASE i = 3 -> Op(2, 3, 0, 0)
          [] i = 4 -> Op(1, 2, 0, 6)
          [] i = 129 -> Op(0, 0, 14, 14)
          [] OTHER -> Op(6, 0, 0, 1)]

\* Sixteen nested subroutines: CALL 0x204 at 0x200 and JP 0x202 at 0x202;
\* subroutine i of 1..15 at 0x204 + 4(i - 1) calls subroutine i + 1 and returns;
\* subroutine 16 at 0x240 returns at once.
DeepCallRom ==
    [i \in 1 .. 2 * STACK_SIZE + 1 |->
        CASE i = 1 -> Op(2, 2, 0, 4)
          [] i = 2 -> Op(1, 2, 0, 2)
          [] i > 2 /\ i < 2 * STACK_SIZE + 1 /\ i % 2 = 1 -> 8192 + 512 + 2 * (i + 1)
          [] OTHER -> Op(0, 0, 14, 14)]

CallRoms ==
    { << a, b, c >> : a \in CallWords, b \in CallWords, c \in CallWords }
        \cup { FarCallRom, DeepCallRom }

InitCall == InitWith(CallRoms, OneKeyScripts)
SpecCall == InitCall /\ [][Next]_vars

\* Draw programs: Index is set, V1 is loaded, then come three words of draws,
\* clears and a load of the delay timer from V1.
DrawIndexWords ==
    { Op(10, 0, 0, 0), Op(10, 0, 5, 0), Op(10, 0, 5, 5), Op(10, 15, 15, 15) }

DrawWords ==
    { Op(13, 0, 0, 1), Op(13, 0, 0, 2), Op(13, 1, 2, 1), Op(0, 0, 14, 0),
      Op(15, 1, 1, 5) }

DrawRoms ==
    { << f, Op(6, 1, 0, 7), a, b, c >> :
        f \in DrawIndexWords, a \in DrawWords, b \in DrawWords, c \in DrawWords }

InitDraw == InitWith(DrawRoms, OneKeyScripts)
SpecDraw == InitDraw /\ [][Next]_vars

\* Memory programs: V0 and V1 are loaded, Index is set and then either moved on
\* by V0 or left alone, and one instruction goes through Index: LD B, LD [I],
\* LD Vx,[I] or DRW.
MemValues == {0, 7, 234, 255}

MemIndexWords ==
    { Op(10, 0, 5, 0), Op(10, 0, 15, 15), Op(10, 2, 0, 0), Op(10, 3, 0, 0),
      Op(10, 15, 15, 13), Op(10, 15, 15, 14), Op(10, 15, 15, 15) }

MemMoveWords == { Op(15, 0, 1, 14), Op(6, 1, 0, 9) }

MemAccessWords ==
    { Op(15, 0, 3, 3), Op(15, 1, 3, 3), Op(15, 0, 5, 5), Op(15, 1, 5, 5),
      Op(15, 0, 6, 5), Op(15, 1, 6, 5), Op(13, 0, 0, 2) }

MemRoms ==
    { << Op(6, 0, v \div 16, v % 16), Op(6, 1, 0, 9), a, e, m >> :
        v \in MemValues, a \in MemIndexWords, e \in MemMoveWords, m \in MemAccessWords }

InitMem == InitWith(MemRoms, OneKeyScripts)
SpecMem == InitMem /\ [][Next]_vars

\* Timer programs: V0 is loaded and put in a timer, a second word reads or
\* loads a timer, then LD V1,K waits for a key and ADD V2,1 follows.
\* The host dispatches a cycle every 2 ms or every 17 ms.
TimerValues == {3, 255}
TimerLoadWords == { Op(15, 0, 1, 5), Op(15, 0, 1, 8) }
TimerNextWords == { Op(15, 0, 0, 7), Op(15, 0, 1, 5), Op(15, 0, 1, 8) }

TimerRoms ==
    { << Op(6, 0, v \div 16, v % 16), a, b, Op(15, 1, 0, 10), Op(7, 2, 0, 1) >> :
        v \in TimerValues, a \in TimerLoadWords, b \in TimerNextWords }

TimerScripts ==
    { << KeyEvent(5, 1) >>,
      << KeyEvent(7, 1), KeyEvent(2, 1) >>,
      << KeyEvent(5, 1), KeyEvent(5, 0) >> }

HostSpeeds == { cycleDelay + 1, 17 }

InitTimer == InitHost(TimerRoms, TimerScripts, HostSpeeds)
SpecTimer == InitTimer /\ [][Next]_vars

\* Scenario programs: LD V0,5; LD V1,3; ADD V0,V1, and LD I,0x250; LD V0,0;
\* LD V1,0; DRW V0,V1,5; and programs that light a pixel, load V1, and then
\* come to a word that is no instruction, with ADD V2,1 after it.
AddProgram == << Op(6, 0, 0, 5), Op(6, 1, 0, 3), Op(8, 0, 1, 4) >>

GlyphProgram == << Op(10, 2, 5, 0), Op(6, 0, 0, 0), Op(6, 1, 0, 0), Op(13, 0, 1, 5) >>

OddWords ==
    { Op(0, 0, 0, 0), Op(0, 0, 1, 0), Op(8, 0, 0, 8), Op(14, 0, 0, 0),
      Op(14, 0, 0, 1), Op(15, 0, 0, 0) }

DecodeRoms ==
    { << Op(10, 0, 5, 5), Op(13, 0, 0, 1), Op(6, 1, 0, 7), w, Op(7, 2, 0, 1) >> :
        w \in OddWords }

ScenarioRoms == { AddProgram, GlyphProgram } \cup DecodeRoms

InitScenario == InitWith(ScenarioRoms, OneKeyScripts)
SpecScenario == InitScenario /\ [][Next]_vars

\* ROM files by length: none, a few bytes, and around what memory holds from
\* START_ADDRESS on.  The bytes are those of LD V0,1 repeated.
RomOfLength(n) == [i \in 1 .. n |-> IF i % 2 = 1 THEN 96 ELSE 1]

LoadLengths ==
    { 0, 2, 4, 6, MEMORY_SIZE - START_ADDRESS - 1, MEMORY_SIZE - START_ADDRESS,
      MEMORY_SIZE - START_ADDRESS + 1, MEMORY_SIZE - START_ADDRESS + 2 }

InitLoad == InitFiles({ RomOfLength(n) : n \in LoadLengths }, OneKeyScripts, FastestHost)
SpecLoad == InitLoad /\ [][Next]_vars

\* Jump programs: V0 is loaded with 1 or 2, two words follow out of jumps to an
\* odd, an even and the last word address, a call, a return, jumps relative
\* to V0 into and beyond memory, a skip and a key wait, and RET is at 0x206.
JumpWords ==
    { Op(1, 2, 0, 3), Op(1, 2, 0, 6), Op(1, 15, 15, 14), Op(2, 2, 0, 6),
      Op(0, 0, 14, 14), Op(11, 2, 0, 2), Op(11, 15, 15, 15), Op(3, 0, 0, 1),
      Op(15, 1, 0, 10) }

JumpRoms ==
    { << Op(6, 0, 0, v), a, b, Op(0, 0, 14, 14) >> :
        v \in {1, 2}, a \in JumpWords, b \in JumpWords }

InitJump == InitWith(JumpRoms, OneKeyScripts)
SpecJump == InitJump /\ [][Next]_vars

\* Instruction programs: a pixel is lit, VF is set to 1, V0 is loaded, and one
\* word of each instruction of the catalog follows, with V0 and V1 as operands.
OpsValues == {5, 16, 200, 255}

OpsWords ==
    { Op(0, 0, 14, 0), Op(0, 0, 14, 14), Op(1, 2, 0, 10), Op(2, 2, 0, 10),
      Op(3, 0, 0, 5), Op(4, 0, 0, 5), Op(5, 0, 1, 0), Op(6, 0, 0, 9),
      Op(7, 0, 0, 1), Op(7, 0, 15, 15), Op(7, 0, 3, 8),
      Op(8, 0, 1, 0), Op(8, 0, 1, 1), Op(8, 0, 1, 2), Op(8, 0, 1, 3),
      Op(8, 0, 1, 4), Op(8, 0, 1, 5), Op(8, 0, 1, 6), Op(8, 0, 1, 7),
      Op(8, 0, 1, 14), Op(9, 0, 1, 0), Op(10, 1, 2, 3), Op(11, 2, 0, 0),
      Op(12, 0, 0, 0), Op(13, 0, 1, 1), Op(14, 0, 9, 14), Op(14, 0, 10, 1),
      Op(15, 0, 0, 7), Op(15, 0, 0, 10), Op(15, 0, 1, 5), Op(15, 0, 1, 8),
      Op(15, 0, 1, 14), Op(15, 0, 2, 9), Op(15, 0, 3, 3), Op(15, 0, 5, 5),
      Op(15, 0, 6, 5) }

OpsRoms ==
    { << Op(10, 0, 5, 5), Op(13, 0, 0, 1), Op(6, 15, 0, 1),
         Op(6, 0, v \div 16, v % 16), w >> :
        v \in OpsValues, w \in OpsWords }

InitOps == InitWith(OpsRoms, OneKeyScripts)
SpecOps == InitOps /\ [][Next]_vars

\* Random programs: V0 is loaded, LD V1,9 is run until one cycle is left after
\* the next, and RND V0,kk follows.
RndValues == {0, 5, 255}
RndMasks == {0, 15, 255}

RndRoms ==
    { [i \in 1 .. MaxCycles - 1 |->
          CASE i = 1 -> Op(6, 0, v \div 16, v % 16)
            [] i = MaxCycles - 1 -> Op(12, 0, k \div 16, k % 16)
            [] OTHER -> Op(6, 1, 0, 9)] :
        v \in RndValues, k \in RndMasks }

InitRnd == InitWith(RndRoms, OneKeyScripts)
SpecRnd == InitRnd /\ [][Next]_vars

\* Quit programs: a counting loop, and a key wait followed by a counting loop,
\* under scripts of one or two events that close the window, press or release
\* Escape, or press key 5.
QuitRoms ==
    { << Op(6, 0, 0, 1), Op(7, 0, 0, 1), Op(1, 2, 0, 2) >>,
      << Op(15, 1, 0, 10), Op(7, 0, 0, 1), Op(1, 2, 0, 0) >> }

QuitEvents == { QuitEvent, EscapeEvent(1), EscapeEvent(0), KeyEvent(5, 1) }

QuitScripts ==
    { << a >> : a \in QuitEvents } \cup { << a, b >> : a \in QuitEvents, b \in QuitEvents }

InitQuit == InitHost(QuitRoms, QuitScripts, HostSpeeds)
SpecQuit == InitQuit /\ [][Next]_vars

\* Key-wait programs: LD Vx,K first or after a register load, then a counting
\* step and a jump back to the start, so that the wait is met again; the keys
\* are pressed, pressed and released, or pressed, released and another pressed.
\* The cycle loop is scheduled fairly: Run dispatches a cycle in every pass
\* that comes more than cycleDelay after the last one.
WaitRegisters == {0, 1}
WaitAddresses == {START_ADDRESS, START_ADDRESS + 2}

KeyWaitRoms ==
    { << Op(15, x, 0, 10), Op(7, 2, 0, 1), Op(1, 2, 0, 0) >> : x \in WaitRegisters }
        \cup { << Op(6, 2, 0, 3), Op(15, x, 0, 10), Op(1, 2, 0, 0) >> : x \in WaitRegisters }

KeyWaitScripts ==
    { << KeyEvent(5, 1) >>,
      << KeyEvent(7, 1), KeyEvent(2, 1) >>,
      << KeyEvent(5, 1), KeyEvent(5, 0) >>,
      << KeyEvent(5, 1), KeyEvent(5, 0), KeyEvent(3, 1) >>,
      << KeyEvent(0, 1), KeyEvent(9, 0) >> }

InitKeyWait == InitWith(KeyWaitRoms, KeyWaitScripts)
SpecKeyWait == InitKeyWait /\ [][Next]_vars /\ WF_vars(RunCycle)

Init ==
    \/ InitAlu \/ InitCall \/ InitDraw \/ InitMem \/ InitTimer \/ InitScenario
    \/ InitLoad \/ InitJump \/ InitOps \/ InitRnd \/ InitQuit
    \/ InitKeyWait
Spec == Init /\ [][Next]_vars

\* ------------------------------------------------------------------------
\* Properties
\* ------------------------------------------------------------------------
\* The step is a cycle that fetched a word and ran it to the end.
Ran == cycles' = cycles + 1 /\ CanFetch(c8) /\ c8'.trap = "none"

\* The step is a cycle that fetched a word, which is then c8'.opcode.
Fetched == cycles' = cycles + 1 /\ CanFetch(c8)

\* The step ran an 8xy_ instruction with selector f whose destination is not VF.
RanAlu(f) ==
    /\ Ran
    /\ OpFamily(c8'.opcode) = 8
    /\ OpN(c8'.opcode) = f
    /\ OpX(c8'.opcode) # VF

\* The last cycle ran the 8xy_ instruction with selector f on registers x and y.
JustRanAlu(f, x, y) ==
    /\ c8.trap = "none"
    /\ hist.opcode = Op(8, x, y, f)
    /\ c8.opcode = hist.opcode

\* The step ran a DRW to the end.
RanDraw == Ran /\ IsDraw(c8'.opcode)

\* The pixels DRW is to toggle: for each set bit (7 - c) of sprite row r, the
\* pixel at row (Vy + r) mod 32, column (Vx + c) mod 64.
SpriteTargets(s, op) ==
    { << (s.registers[OpY(op)] + rc[1]) % VIDEO_HEIGHT,
         (s.registers[OpX(op)] + rc[2]) % VIDEO_WIDTH >> :
        rc \in { q \in (0 .. OpN(op) - 1) \X (0 .. 7) :
                   Bit(s.memory[s.indexRegister + q[1]], 7 - q[2]) = 1 } }

Rows == 0 .. VIDEO_HEIGHT - 1
Cols == 0 .. VIDEO_WIDTH - 1
AllOff(px) == \A r \in Rows, c \in Cols : px[r][c] = 0

\* The word stored at address a and a + 1.
WordAt(a) == c8.memory[a] * 256 + c8.memory[a + 1]

\* The step ran a DRW right after a cycle that ran the same DRW word to the end,
\* from the Index and the registers (but for VF) that the first draw started from.
RanSecondDraw ==
    /\ RanDraw
    /\ hist.opcode = c8'.opcode
    /\ hist.trap = "none"
    /\ hist.indexRegister = c8.indexRegister
    /\ \A i \in 0 .. NUM_REGISTERS - 1 : i # VF => hist.registers[i] = c8.registers[i]

\* C1 as stated: the second of two identical draws in succession restores the
\* framebuffer the first one started from, and leaves VF = 1.
C1_DrawTwiceAlwaysCollides ==
    [][ RanSecondDraw => (c8'.pixels = hist.pixels /\ c8'.registers[VF] = 1) ]_vars

\* C1 as amended: the second of two identical draws in succession restores the
\* framebuffer the first one started from, and leaves VF = 1 whenever the first
\* draw left on a pixel that was off before it.
C1_DrawTwiceRestores ==
    [][ RanSecondDraw =>
          /\ c8'.pixels = hist.pixels
          /\ (\E r \in Rows, c \in Cols : hist.pixels[r][c] = 0 /\ c8.pixels[r][c] = 1)
                => c8'.registers[VF] = 1 ]_vars

\* C1 witness: LD I,0x055; LD V1,7; DRW V0,V0,1; DRW V0,V0,1 has run from boot:
\* the second draw has erased what the first drew and reports the collision.
C1_Witness ==
    /\ c8.trap = "none"
    /\ cycles = 4
    /\ c8.programCounter = START_ADDRESS + 8
    /\ WordAt(START_ADDRESS) = Op(10, 0, 5, 5)
    /\ WordAt(START_ADDRESS + 4) = Op(13, 0, 0, 1)
    /\ WordAt(START_ADDRESS + 6) = Op(13, 0, 0, 1)
    /\ hist.pixels[0][0] = 1
    /\ AllOff(c8.pixels)
    /\ c8.registers[VF] = 1

\* C2: DRW Vx,Vy,n toggles exactly the pixels the sprite selects, at column
\* (Vx + c) mod 64 and row (Vy + r) mod 32, and leaves every other pixel as it was.
C2_DrawTogglesSprite ==
    [][ RanDraw =>
          LET targets == SpriteTargets(c8, c8'.opcode)
          IN  \A r \in Rows, c \in Cols :
                  c8'.pixels[r][c] =
                      (IF << r, c >> \in targets THEN 1 - c8.pixels[r][c]
                                                 ELSE c8.pixels[r][c]) ]_vars

\* C3: after DRW, VF is 1 if and only if some pixel was on before the draw and
\* is off after it, and 0 otherwise.
C3_DrawFlagIsCollision ==
    [][ RanDraw =>
          /\ c8'.registers[VF] \in {0, 1}
          /\ c8'.registers[VF] = 1
                <=> (\E r \in Rows, c \in Cols :
                        c8.pixels[r][c] = 1 /\ c8'.pixels[r][c] = 0) ]_vars

\* C4: CLS runs to the end from any framebuffer and leaves every pixel off, a
\* CLS of a cleared framebuffer leaves it as it is, and CLS changes no register,
\* Index, stack, stack pointer or memory cell, and the timers only by the decay
\* that the cycle applies after every instruction.
C4_ClsClears ==
    [][ (Fetched /\ IsCls(c8'.opcode)) =>
          /\ c8'.trap = "none"
          /\ AllOff(c8'.pixels)
          /\ AllOff(c8.pixels) => c8'.pixels = c8.pixels
          /\ c8'.registers = c8.registers
          /\ c8'.indexRegister = c8.indexRegister
          /\ c8'.stack = c8.stack
          /\ c8'.stackPointer = c8.stackPointer
          /\ c8'.memory = c8.memory
          /\ c8'.delayTimer = TimerDecay(c8.delayTimer)
          /\ c8'.soundTimer = TimerDecay(c8.soundTimer) ]_vars

\* C4 witness: CLS has run on a framebuffer with a pixel on, with the delay
\* timer running, and every pixel is off.
C4_Witness ==
    /\ c8.trap = "none"
    /\ IsCls(hist.opcode)
    /\ c8.opcode = hist.opcode
    /\ hist.pixels[0][0] = 1
    /\ AllOff(c8.pixels)
    /\ c8.delayTimer > 0

\* C5: ADD Vx,Vy (Vx a register other than VF) leaves Vx = (Vx + Vy) mod 256 and
\* VF = 1 exactly when the unwrapped sum exceeds 255, for all values of Vx and Vy.
C5_AddCarry ==
    [][ RanAlu(4) =>
          LET x == OpX(c8'.opcode)
              y == OpY(c8'.opcode)
              sum == c8.registers[x] + c8.registers[y]
          IN  /\ c8'.registers[x] = sum % 256
              /\ c8'.registers[VF] = (IF sum > 255 THEN 1 ELSE 0) ]_vars

\* C5 witness: ADD V0,V1 has run with V0 = 0xFF and V1 = 0x01, giving V0 = 0, VF = 1.
C5_Witness ==
    /\ JustRanAlu(4, 0, 1)
    /\ hist.registers[0] = 255
    /\ hist.registers[1] = 1
    /\ c8.registers[0] = 0
    /\ c8.registers[VF] = 1

\* C6: SUB Vx,Vy (Vx a register other than VF) leaves Vx = (Vx - Vy) mod 256 and
\* VF = 1 exactly when the old Vx was greater than Vy; SUBN Vx,Vy leaves
\* Vx = (Vy - Vx) mod 256 and VF = 1 exactly when Vy was greater than the old Vx.
C6_SubBorrow ==
    [][ /\ RanAlu(5) =>
              LET x == OpX(c8'.opcode)
                  y == OpY(c8'.opcode)
              IN  /\ c8'.registers[x] = (c8.registers[x] - c8.registers[y]) % 256
                  /\ c8'.registers[VF] =
                        (IF c8.registers[x] > c8.registers[y] THEN 1 ELSE 0)
        /\ RanAlu(7) =>
              LET x == OpX(c8'.opcode)
                  y == OpY(c8'.opcode)
              IN  /\ c8'.registers[x] = (c8.registers[y] - c8.registers[x]) % 256
                  /\ c8'.registers[VF] =
                        (IF c8.registers[y] > c8.registers[x] THEN 1 ELSE 0) ]_vars

\* C7: SHR Vx (Vx a register other than VF) leaves VF = the old least-significant
\* bit of Vx and Vx = Vx div 2; SHL Vx leaves VF = the old most-significant bit
\* of Vx and Vx = (2 * Vx) mod 256.
C7_ShiftFlag ==
    [][ /\ RanAlu(6) =>
              LET x == OpX(c8'.opcode)
              IN  /\ c8'.registers[VF] = c8.registers[x] % 2
                  /\ c8'.registers[x] = c8.registers[x] \div 2
        /\ RanAlu(14) =>
              LET x == OpX(c8'.opcode)
              IN  /\ c8'.registers[VF] = c8.registers[x] \div 128
                  /\ c8'.registers[x] = (2 * c8.registers[x]) % 256 ]_vars

\* C7 witness: SHR V0 has run with V0 = 0b10000001, giving V0 = 0b01000000, VF = 1.
C7_Witness ==
    /\ JustRanAlu(6, 0, 1)
    /\ hist.registers[0] = 129
    /\ c8.registers[0] = 64
    /\ c8.registers[VF] = 1

\* C8: a RET that runs returns to the instruction after the matching CALL (the
\* last CALL not yet returned from), with the stack pointer that CALL found.
C8_CallRetRoundTrip ==
    [][ (Ran /\ IsRet(c8'.opcode)) =>
          /\ callLog # << >>
          /\ c8'.programCounter = callLog[Len(callLog)].at + 2
          /\ c8'.stackPointer = callLog[Len(callLog)].sp ]_vars

\* C8 witness: CALL 0x300 fetched at 0x204, then the RET at 0x300, have run: the
\* program counter is 0x206 and the stack pointer is 0 again.
C8_Witness ==
    /\ c8.trap = "none"
    /\ WordAt(516) = Op(2, 3, 0, 0)
    /\ IsRet(c8.opcode)
    /\ hist.opcode = c8.opcode
    /\ cycles = 4
    /\ c8.programCounter = 518
    /\ c8.stackPointer = 0
    /\ callLog = << >>

\* C9: CALL with the stack pointer at 16 stops the machine: no stack slot is
\* written, the stack pointer stays 16, the program counter stays at the address
\* after the CALL, and no step is taken once the machine has stopped.
C9_CallOverflowStops ==
    [][ /\ (Fetched /\ IsCall(c8'.opcode) /\ c8.stackPointer = STACK_SIZE) =>
              /\ c8'.trap # "none"
              /\ c8'.stack = c8.stack
              /\ c8'.stackPointer = STACK_SIZE
              /\ c8'.programCounter = c8.programCounter + 2
        /\ c8.trap = "none" ]_vars

\* C9 witness: the seventeenth nested CALL has stopped the machine.
C9_Witness ==
    /\ c8.trap = "panic"
    /\ IsCall(c8.opcode)
    /\ c8.stackPointer = STACK_SIZE
    /\ Len(callLog) = STACK_SIZE

\* C10: RET with the stack pointer at 0 stops the machine with the stack
\* pointer not wrapped to 255 and the program counter not loaded from the stack.
C10_RetUnderflowKeepsPointer ==
    [][ (Fetched /\ IsRet(c8'.opcode) /\ c8.stackPointer = 0) =>
          /\ c8'.trap # "none"
          /\ c8'.stackPointer = 0
          /\ c8'.programCounter = c8.programCounter + 2 ]_vars

\* The step fetched the Fx__ instruction with low byte kk.
FetchedF(kk) == Fetched /\ OpFamily(c8'.opcode) = 15 /\ OpKK(c8'.opcode) = kk

\* The last cycle ran the word op to the end.
JustRan(op) == c8.trap = "none" /\ hist.opcode = op /\ c8.opcode = op /\ hist.trap = "none"

Addresses == 0 .. MEMORY_SIZE - 1

\* C11: LD B,Vx with Index + 2 <= 0xFFF runs to the end and writes the hundreds
\* digit of Vx to memory[Index], the tens digit to memory[Index + 1] and the ones
\* digit to memory[Index + 2], changing no other memory cell and no register.
C11_BcdDigits ==
    [][ (FetchedF(51) /\ c8.indexRegister + 2 <= MEMORY_SIZE - 1) =>
          LET v == c8.registers[OpX(c8'.opcode)]
              i == c8.indexRegister
          IN  /\ c8'.trap = "none"
              /\ c8'.memory =
                    [a \in Addresses |->
                       CASE a = i -> v \div 100
                         [] a = i + 1 -> (v \div 10) % 10
                         [] a = i + 2 -> v % 10
                         [] OTHER -> c8.memory[a]]
              /\ c8'.registers = c8.registers
              /\ c8'.indexRegister = c8.indexRegister ]_vars

\* C11 witness: LD B,V0 has run with V0 = 234 and Index = 0x300, and memory
\* holds 2, 3, 4 from 0x300.
C11_Witness ==
    /\ JustRan(Op(15, 0, 3, 3))
    /\ hist.registers[0] = 234
    /\ c8.indexRegister = 768
    /\ c8.memory[768] = 2
    /\ c8.memory[769] = 3
    /\ c8.memory[770] = 4

\* C12: the delay and sound timers are always in 0..255; in a step that does
\* not run LD DT,Vx the delay timer stays as it is or, being non-zero, goes down
\* by exactly 1 (so it never rises, never wraps, and stays zero once zero), and
\* a cycle that runs to the end lowers a non-zero delay timer by exactly 1; the
\* same holds of the sound timer and LD ST,Vx.
C12_TimersMonotone ==
    /\ [](c8.delayTimer \in 0 .. 255 /\ c8.soundTimer \in 0 .. 255)
    /\ [][ /\ ~FetchedF(21) =>
                 \/ c8'.delayTimer = c8.delayTimer
                 \/ c8.delayTimer > 0 /\ c8'.delayTimer = c8.delayTimer - 1
           /\ (Ran /\ ~FetchedF(21) /\ c8.delayTimer > 0) =>
                 c8'.delayTimer = c8.delayTimer - 1
           /\ ~FetchedF(24) =>
                 \/ c8'.soundTimer = c8.soundTimer
                 \/ c8.soundTimer > 0 /\ c8'.soundTimer = c8.soundTimer - 1
           /\ (Ran /\ ~FetchedF(24) /\ c8.soundTimer > 0) =>
                 c8'.soundTimer = c8.soundTimer - 1 ]_vars

\* C12 witness: the delay timer, loaded with a non-zero value, has decayed to
\* zero and a further cycle has left it at zero.
C12_Witness ==
    /\ c8.trap = "none"
    /\ WordAt(START_ADDRESS) = Op(6, 0, 0, 3)
    /\ WordAt(START_ADDRESS + 2) = Op(15, 0, 1, 5)
    /\ cycles = 5
    /\ hist.delayTimer = 0
    /\ c8.delayTimer = 0

\* The whole milliseconds in one period of the 60 Hz timer clock: two ticks of
\* that clock are never stamped less than this far apart.
TickMs == 1000 \div 60

\* C13: the timers are lowered by the ticks of a 60 Hz clock and by nothing
\* else, however many instructions the host dispatches per tick: two cycles in
\* succession that each lower the running delay timer are at least one tick
\* period apart.
C13_DecayByTicksOnly ==
    [][ ( /\ Ran
          /\ ~FetchedF(21)
          /\ c8.delayTimer > 0
          /\ cycles > 0
          /\ hist.trap = "none"
          /\ ~(OpFamily(hist.opcode) = 15 /\ OpKK(hist.opcode) = 21)
          /\ hist.delayTimer = c8.delayTimer + 1 ) =>
          lastCycleTime' - lastCycleTime >= TickMs ]_vars

\* The ROM file loaded was the program of these words.
LoadedWith(words) == romFile = RomBytes(words)

\* C14: three cycles from boot on the program 60 05 61 03 80 14 leave V0 = 8,
\* V1 = 3, VF = 0 and the program counter at 0x206, with every other register,
\* Index, the stack pointer and the framebuffer as at boot.
C14_AddProgramResult ==
    (cycles = 3 /\ LoadedWith(AddProgram)) =>
        /\ c8.trap = "none"
        /\ c8.registers =
              [i \in 0 .. NUM_REGISTERS - 1 |->
                 CASE i = 0 -> 8 [] i = 1 -> 3 [] OTHER -> 0]
        /\ c8.programCounter = START_ADDRESS + 6
        /\ c8.indexRegister = newChip8.indexRegister
        /\ c8.stackPointer = newChip8.stackPointer
        /\ c8.pixels = newChip8.pixels

\* C14 witness: the third cycle of that program was the ADD and has left V0 = 8.
C14_Witness ==
    /\ cycles = 3
    /\ LoadedWith(AddProgram)
    /\ JustRan(Op(8, 0, 1, 4))
    /\ hist.registers[0] = 5
    /\ c8.registers[0] = 8

\* C15 as stated: four cycles from boot on the program A2 50 60 00 61 00 D0 15
\* leave the first five framebuffer rows showing font glyph 0 in columns 0..7,
\* every other pixel off, and VF = 0.
C15_GlyphDrawn ==
    (cycles = 4 /\ LoadedWith(GlyphProgram)) =>
        /\ \A r \in Rows, c \in Cols :
              c8.pixels[r][c] = (IF r < 5 /\ c < 8 THEN Bit(fontset[r + 1], 7 - c) ELSE 0)
        /\ c8.registers[VF] = 0

\* C15 as amended: four cycles from boot on that program leave Index at 0x250,
\* where memory is zero, and so every pixel off, and VF = 0.
C15_NothingDrawn ==
    (cycles = 4 /\ LoadedWith(GlyphProgram)) =>
        /\ c8.trap = "none"
        /\ c8.indexRegister = 592
        /\ \A k \in 0 .. 4 : c8.memory[c8.indexRegister + k] = 0
        /\ AllOff(c8.pixels)
        /\ c8.registers[VF] = 0

\* C15 witness: the fourth cycle of that program was the DRW V0,V1,5.
C15_Witness ==
    /\ cycles = 4
    /\ LoadedWith(GlyphProgram)
    /\ JustRan(Op(13, 0, 1, 5))
    /\ c8.programCounter = START_ADDRESS + 8

\* The word is no instruction of the catalog: in family 0 anything but 00E0 and
\* 00EE, in family 8 a low nibble other than 0..7 and E, in family E a low byte
\* other than 9E and A1, in family F a low byte with no entry.
NoInstruction(op) ==
    CASE OpFamily(op) = 0 -> op \notin {224, 238}
      [] OpFamily(op) = 8 -> OpN(op) \notin (0 .. 7) \cup {14}
      [] OpFamily(op) = 14 -> OpKK(op) \notin {158, 161}
      [] OpFamily(op) = 15 -> OpKK(op) \notin {7, 10, 21, 24, 30, 41, 51, 85, 101}
      [] OTHER -> FALSE

\* C16: a cycle that fetches a word that is no instruction stops the machine
\* and runs no handler: registers, Index, stack, stack pointer, memory and
\* framebuffer are as before.
C16_DecodeFailureStops ==
    [][ (Fetched /\ NoInstruction(c8'.opcode)) =>
          /\ c8'.trap # "none"
          /\ c8'.registers = c8.registers
          /\ c8'.indexRegister = c8.indexRegister
          /\ c8'.stack = c8.stack
          /\ c8'.stackPointer = c8.stackPointer
          /\ c8'.memory = c8.memory
          /\ c8'.pixels = c8.pixels ]_vars

\* The keys that the keypad latch shows pressed.
Pressed(keypad) == {k \in 0 .. NUM_KEYS - 1 : keypad[k] # 0}

AccessOffsets(op) ==
    CASE IsDraw(op) -> 0 .. OpN(op) - 1
      [] OpFamily(op) = 15 /\ OpKK(op) = 51 -> 0 .. 2
      [] OpFamily(op) = 15 /\ OpKK(op) \in {85, 101} -> 0 .. OpX(op)
      [] OTHER -> {}

\* C18: a cycle that fetches DRW, LD B, LD [I] or LD Vx,[I] with some accessed
\* address Index + k at or above 4096 stops the machine, and writes no memory
\* cell other than the addresses Index + k themselves.
C18_OutOfRangeStops ==
    [][ ( /\ Fetched
          /\ \E k \in AccessOffsets(c8'.opcode) : c8.indexRegister + k >= MEMORY_SIZE ) =>
          /\ c8'.trap # "none"
          /\ \A a \in Addresses :
                c8'.memory[a] # c8.memory[a] =>
                    \E k \in AccessOffsets(c8'.opcode) : a = c8.indexRegister + k ]_vars

\* C19: LD [I],Vx with Index <= 0xFFF - x runs to the end and leaves
\* memory[Index + i] = Vi for every i in 0..x, every other memory cell and every
\* register as it was; LD Vx,[I] leaves Vi = memory[Index + i] for every i in
\* 0..x, every register above x and every memory cell as it was.
C19_StoreLoadRegisters ==
    [][ /\ (FetchedF(85) /\ c8.indexRegister <= MEMORY_SIZE - 1 - OpX(c8'.opcode)) =>
              /\ c8'.trap = "none"
              /\ c8'.memory =
                    [a \in Addresses |->
                       IF a >= c8.indexRegister /\ a - c8.indexRegister <= OpX(c8'.opcode)
                       THEN c8.registers[a - c8.indexRegister]
                       ELSE c8.memory[a]]
              /\ c8'.registers = c8.registers
        /\ (FetchedF(101) /\ c8.indexRegister <= MEMORY_SIZE - 1 - OpX(c8'.opcode)) =>
              /\ c8'.trap = "none"
              /\ c8'.registers =
                    [i \in 0 .. NUM_REGISTERS - 1 |->
                       IF i <= OpX(c8'.opcode)
                       THEN c8.memory[c8.indexRegister + i]
                       ELSE c8.registers[i]]
              /\ c8'.memory = c8.memory ]_vars

\* C20: before the first cycle, a ROM longer than 4096 - 0x200 bytes has
\* stopped the machine with no memory cell written; any other ROM is in memory
\* byte for byte from 0x200 with every other cell as boot left it.
C20_LoadChecksSpace ==
    cycles = 0 =>
        IF Len(romFile) > MEMORY_SIZE - START_ADDRESS
        THEN /\ c8.trap # "none"
             /\ c8.memory = newChip8.memory
        ELSE /\ c8.trap = "none"
             /\ c8.memory =
                   [a \in Addresses |->
                      IF a >= START_ADDRESS /\ a - START_ADDRESS < Len(romFile)
                      THEN romFile[a - START_ADDRESS + 1]
                      ELSE newChip8.memory[a]]

\* C21: in every reachable state the stack pointer is in 0..16.
C21_StackPointerInRange == c8.stackPointer \in 0 .. STACK_SIZE

\* C22 as stated: the program counter is even in every reachable state.
C22_PcAlwaysEven == c8.programCounter % 2 = 0

\* C22 as amended: a cycle leaves the program counter odd or even as it found
\* it, but for JP nnn and CALL nnn, which run to leave it at nnn, JP V0,nnn,
\* which leaves it at V0 + nnn, and RET, which runs to leave it at the address on
\* top of the stack; and the address a CALL stacks is the one after the CALL.
C22_PcParityKept ==
    [][ cycles' = cycles + 1 =>
          LET op == c8'.opcode
          IN  CASE ~CanFetch(c8) -> c8'.programCounter = c8.programCounter
                [] CanFetch(c8) /\ OpFamily(op) = 1 -> c8'.programCounter = OpNNN(op)
                [] CanFetch(c8) /\ IsCall(op) ->
                      c8'.trap = "none" =>
                          /\ c8'.programCounter = OpNNN(op)
                          /\ c8'.stack[c8.stackPointer] = c8.programCounter + 2
                [] CanFetch(c8) /\ OpFamily(op) = 11 ->
                      c8'.programCounter = c8.registers[0] + OpNNN(op)
                [] CanFetch(c8) /\ IsRet(op) ->
                      c8'.trap = "none" =>
                          c8'.programCounter = c8.stack[c8.stackPointer - 1]
                [] OTHER -> c8'.programCounter % 2 = c8.programCounter % 2 ]_vars

\* C22 witness: JP 0x203 has run and the program counter is odd.
C22_Witness ==
    /\ JustRan(Op(1, 2, 0, 3))
    /\ c8.programCounter = 515

\* C23: ADD Vx,kk runs to the end and leaves Vx = (Vx + kk) mod 256, and for x
\* other than 0xF leaves VF as it was, whether or not the sum exceeded 255.
C23_AddImmediateKeepsFlag ==
    [][ (Fetched /\ OpFamily(c8'.opcode) = 7) =>
          LET x == OpX(c8'.opcode)
          IN  /\ c8'.trap = "none"
              /\ c8'.registers[x] = (c8.registers[x] + OpKK(c8'.opcode)) % 256
              /\ x # VF => c8'.registers[VF] = c8.registers[VF] ]_vars

\* C23 witness: ADD V0,0xFF has run with V0 = 200 and VF = 1: V0 is 199 and VF
\* is still 1.
C23_Witness ==
    /\ JustRan(Op(7, 0, 15, 15))
    /\ hist.registers[0] = 200
    /\ hist.registers[VF] = 1
    /\ c8.registers[0] = 199
    /\ c8.registers[VF] = 1

\* C24: RND Vx,kk leaves in Vx no bit that is not in kk, whatever Vx held before.
C24_RandomIsMasked ==
    [][ (Fetched /\ OpFamily(c8'.opcode) = 12) =>
          /\ c8'.trap = "none"
          /\ BitAnd(c8'.registers[OpX(c8'.opcode)], 255 - OpKK(c8'.opcode)) = 0 ]_vars

\* The events that the step polled.
Polled == SubSeq(pending, 1, Len(pending) - Len(pending'))

\* C25: SKP Vx and SKNP Vx run to the end whatever byte Vx holds, never
\* indexing the keypad latch outside keys 0..0xF, and leave the latch as the
\* poll of the pass left it; with Vx a key, SKP leaves the program counter at
\* the fetch address + 4 if that key is pressed and at + 2 if not, and SKNP the
\* other way round.
C25_KeySkips ==
    [][ (Fetched /\ OpFamily(c8'.opcode) = 14 /\ OpKK(c8'.opcode) \in {158, 161}) =>
          LET key == c8.registers[OpX(c8'.opcode)]
              skp == OpKK(c8'.opcode) = 158
          IN  /\ c8'.trap = "none"
              /\ c8'.keypad = PollEvents(c8.keypad, Polled)
              /\ key < NUM_KEYS =>
                    c8'.programCounter =
                       c8.programCounter
                          + (IF (c8'.keypad[key] # 0) = skp THEN 4 ELSE 2) ]_vars

\* C26: a step changes a pixel only if it is a cycle that fetched CLS or DRW:
\* a cycle of any other instruction of the catalog, with its timer decay and
\* its poll of the keys, and a pass without a cycle leave every pixel as it was.
C26_OnlyClsAndDrwDraw ==
    [][ ( \/ cycles' = cycles
          \/ /\ Fetched
             /\ ~NoInstruction(c8'.opcode)
             /\ c8'.opcode # Op(0, 0, 14, 0)
             /\ ~IsDraw(c8'.opcode) ) =>
          c8'.pixels = c8.pixels ]_vars

\* C26 witness: LD DT,V0 has run with a pixel lit, the timer has decayed, and
\* the pixel is still lit.
C26_Witness ==
    /\ JustRan(Op(15, 0, 1, 5))
    /\ hist.pixels[0][0] = 1
    /\ c8.pixels = hist.pixels
    /\ c8.delayTimer = hist.registers[0] - 1

\* C27: after ADD Vx,Vy, SUB Vx,Vy, SUBN Vx,Vy, SHR Vx and SHL Vx the flag
\* register holds the carry, the not-borrow or the shifted-out bit of the
\* operands, a value in {0, 1}, for every x in 0..0xF, x = 0xF included.
C27_FlagIsOutput ==
    [][ (Ran /\ OpFamily(c8'.opcode) = 8 /\ OpN(c8'.opcode) \in AluSelectors) =>
          LET a == c8.registers[OpX(c8'.opcode)]
              b == c8.registers[OpY(c8'.opcode)]
              f == OpN(c8'.opcode)
          IN  c8'.registers[VF] =
                 CASE f = 4  -> IF a + b > 255 THEN 1 ELSE 0
                   [] f = 5  -> IF a >= b THEN 1 ELSE 0
                   [] f = 7  -> IF b >= a THEN 1 ELSE 0
                   [] f = 6  -> a % 2
                   [] f = 14 -> a \div 128 ]_vars

\* C28: nested calls return in reverse order. In every state the machine
\* reaches running, the stack pointer counts the CALLs not yet returned from,
\* the i-th of them found the stack pointer at i - 1, and slot i - 1 still holds
\* the address after it, whatever deeper calls were made since; and a RET
\* returns to the address after the last of them.
C28_NestedCallsReturnInOrder ==
    [][ c8'.trap = "none" =>
          /\ c8'.stackPointer = Len(callLog')
          /\ \A i \in 1 .. Len(callLog') :
                /\ callLog'[i].sp = i - 1
                /\ c8'.stack[i - 1] = callLog'[i].at + 2
          /\ (Ran /\ IsRet(c8'.opcode)) =>
                /\ callLog' = SubSeq(callLog, 1, Len(callLog) - 1)
                /\ c8'.programCounter = c8.stack[Len(callLog')] ]_vars

\* C28 witness: sixteen nested CALLs and then sixteen RETs have run: the last
\* RET has returned to 0x202, after the first CALL, with the stack pointer 0.
C28_Witness ==
    /\ c8.trap = "none"
    /\ romFile = RomBytes(DeepCallRom)
    /\ cycles = 2 * STACK_SIZE
    /\ IsRet(c8.opcode)
    /\ c8.programCounter = 514
    /\ c8.stackPointer = 0
    /\ callLog = << >>
    /\ c8.stack[STACK_SIZE - 1] = 574

\* C29: whenever a cycle begins, the two addresses it fetches from, PC and
\* PC + 1, lie within memory, 0x000..0xFFF.
C29_FetchInsideMemory ==
    [][ cycles' = cycles + 1 =>
          /\ c8.programCounter \in Addresses
          /\ c8.programCounter + 1 \in Addresses ]_vars

\* C30: a cycle that runs to the end lowers each non-zero timer by exactly 1,
\* after the handler has run: a timer the instruction loaded from Vx holds
\* Vx - 1 for Vx > 0 and 0 for Vx = 0, any other timer is 1 lower or stays 0;
\* a cycle in which LD Vx,K finds no key pressed is such a cycle.
C30_DecayAfterHandler ==
    [][ /\ Ran =>
              LET vx == c8.registers[OpX(c8'.opcode)]
              IN  /\ c8'.delayTimer =
                        TimerDecay(IF FetchedF(21) THEN vx ELSE c8.delayTimer)
                  /\ c8'.soundTimer =
                        TimerDecay(IF FetchedF(24) THEN vx ELSE c8.soundTimer)
        /\ (FetchedF(10) /\ Pressed(c8'.keypad) = {}) => Ran ]_vars

\* C30 witness: LD DT,V0 has run with V0 = 3 and the delay timer holds 2.
C30_Witness ==
    /\ JustRan(Op(15, 0, 1, 5))
    /\ hist.registers[0] = 3
    /\ hist.delayTimer = 0
    /\ c8.delayTimer = 2

\* C31: a pass of the Run loop whose poll reports quit dispatches no cycle,
\* and no pass follows it: once quit is reported no instruction runs.
C31_QuitStopsDispatch ==
    [][ /\ ~quit
        /\ quit' = QuitSeen(Polled)
        /\ quit' => cycles' = cycles ]_vars

\* The machine is about to fetch LD Vx,K at address a, and the Run loop goes on.
WaitingAt(a, x) ==
    /\ c8.trap = "none"
    /\ ~quit
    /\ ~QuitSeen(pending)
    /\ cycles < MaxCycles
    /\ c8.programCounter = a
    /\ WordAt(a) = Op(15, x, 0, 10)

\* Key k is pressed and no event to come releases it.
KeyHeld(k) ==
    /\ c8.keypad[k] # 0
    /\ \A i \in 1 .. Len(pending) : pending[i] # KeyEvent(k, 0)

\* The LD Vx,K at address a has just taken a key that is pressed.
WaitCompleted(a, x) ==
    /\ c8.trap = "none"
    /\ c8.opcode = Op(15, x, 0, 10)
    /\ c8.programCounter = a + 2
    /\ c8.registers[x] \in Pressed(c8.keypad)

\* C32: when the machine waits in LD Vx,K and a key is pressed and stays
\* pressed, the wait comes to an end, with Vx the index of a key pressed at
\* that moment and the program counter after the instruction; and no step
\* taken while it waits puts the program counter below the LD Vx,K.
C32_KeyWaitIsLive ==
    /\ \A a \in WaitAddresses, x \in WaitRegisters :
          (WaitingAt(a, x) /\ \E k \in 0 .. NUM_KEYS - 1 : KeyHeld(k))
              ~> WaitCompleted(a, x)
    /\ [][ (c8.trap = "none" /\ OpFamily(WordAt(c8.programCounter)) = 15
             /\ OpKK(WordAt(c8.programCounter)) = 10) =>
              c8'.programCounter \in {c8.programCounter, c8.programCounter + 2} ]_vars

\* C32 witness: LD V1,K at 0x200 waited for two cycles and at the third took
\* key 5, which is pressed.
C32_Witness ==
    /\ WaitCompleted(START_ADDRESS, 1)
    /\ hist.opcode = c8.opcode
    /\ cycles = 3
    /\ c8.registers[1] = 5
    /\ c8.keypad[5] = 1

====
